---- MODULE Spec2Model ----
(***************************************************************************)
(* Model of example/new_tools/peptide_distribution.py: the approximate     *)
(* peptide search (count_mutations, find_peptide_positions), the           *)
(* aggregation of the hits of every peptide in main, and the row packing   *)
(* loop of create_plot.  A sequence of residues is a TLA+ sequence of      *)
(* one-character strings; a match is the dict built at lines 63-68 and     *)
(* tagged with its peptide at lines 258-261.                               *)
(***************************************************************************)
EXTENDS Integers, Sequences, FiniteSets

VARIABLES
    protein_seq,        \* main: the protein being processed (line 248)
    peptides,           \* main: the peptide list (line 242)
    mutations,          \* args.mutations (line 19)
    pc,                 \* position of main / create_plot
    p_idx,              \* 1-based index of the next peptide of the loop at 254
    matches,            \* main: result of the latest find_peptide_positions call
    all_matches,        \* main: line 252
    sorted_matches,     \* create_plot: line 122
    rows,               \* create_plot: line 117
    row_end_positions,  \* create_plot: line 118
    m_idx,              \* 1-based index of the next match of the loop at 125
    last                \* history: the latest iteration of the loop at 125

vars == <<protein_seq, peptides, mutations, pc, p_idx, matches, all_matches,
          sorted_matches, rows, row_end_positions, m_idx, last>>

----------------------------------------------------------------------------
(* Bounds of the inputs.                                                   *)

MaxProtLen == 4
MaxPepLen == 3
MaxBudget == 1
MaxPeptides == 3

(* Program constants.                                                      *)
max_rows == 2
min_gap == 10

Alphabet == {"A", "K"}
Spacer == "G"

RECURSIVE StrsOfLen(_)
StrsOfLen(n) ==
    IF n = 0 THEN {<<>>}
    ELSE {Append(s, c) : s \in StrsOfLen(n - 1), c \in Alphabet}

Strs(lo, hi) == UNION {StrsOfLen(n) : n \in lo..hi}

SeqsUpTo(S, n) == UNION {[1..k -> S] : k \in 0..n}

Budgets == -1..MaxBudget

Min(a, b) == IF a < b THEN a ELSE b
Max(a, b) == IF a > b THEN a ELSE b

----------------------------------------------------------------------------
(* count_mutations and find_peptide_positions.                             *)

\* zip(seq1, seq2) stops at the shorter sequence; k is the 1-based position.
RECURSIVE count_from(_, _, _)
count_from(seq1, seq2, k) ==
    IF k > Min(Len(seq1), Len(seq2)) THEN 0
    ELSE (IF seq1[k] # seq2[k] THEN 1 ELSE 0) + count_from(seq1, seq2, k + 1)

count_mutations(seq1, seq2) == count_from(seq1, seq2, 1)

\* protein_seq[i:i+peptide_len], i 0-based; a Python slice is clipped to the
\* sequence.
slice(s, i, j) == SubSeq(s, i + 1, Min(j, Len(s)))

\* line 61; the variant tests = in place of <=
within_budget_equal(muts, mutations_allowed) == muts = mutations_allowed
within_budget(muts, mutations_allowed) == muts <= mutations_allowed

\* lines 63-68; the variant records the 0-based start
position_start_zero_based(i, peptide_len, muts, substring) ==
    [start |-> i, end |-> i + peptide_len, mutations |-> muts,
     sequence |-> substring]
position(i, peptide_len, muts, substring) ==
    [start |-> i + 1, end |-> i + peptide_len, mutations |-> muts,
     sequence |-> substring]

\* lines 57-59 and 63-68: the dict built for the window at each offset
\* i = k - 1 of range(len(protein_seq) - peptide_len + 1), in scan order
windows(peptide, prot) ==
    [k \in 1..(Len(prot) - Len(peptide) + 1) |->
        position(k - 1, Len(peptide),
                 count_mutations(peptide,
                                 slice(prot, k - 1, k - 1 + Len(peptide))),
                 slice(prot, k - 1, k - 1 + Len(peptide)))]

\* lines 49-70: the windows that pass the test of line 61 are appended in
\* scan order
find_peptide_positions(peptide, prot, mutations_allowed) ==
    IF Len(peptide) > Len(prot) THEN <<>>
    ELSE SelectSeq(windows(peptide, prot),
                   LAMBDA m : within_budget(m.mutations, mutations_allowed))

----------------------------------------------------------------------------
(* sorted() and list.sort(): a stable sort on the keys, which are tuples  *)
(* compared as Python compares tuples.                                     *)

\* Python's < on tuples of integers, from position k on
RECURSIVE tuple_less_from(_, _, _)
tuple_less_from(a, b, k) ==
    IF k > Len(a) THEN k <= Len(b)
    ELSE IF k > Len(b) THEN FALSE
    ELSE IF a[k] # b[k] THEN a[k] < b[k]
    ELSE tuple_less_from(a, b, k + 1)

tuple_less(a, b) == tuple_less_from(a, b, 1)

\* The position of each key-element pair in the stable order of the keys, as
\* the set of <<position, index>>: the pair at index i goes to the position
\* that counts the pairs with a smaller key and the earlier pairs with an
\* equal key.
ranked(pairs) ==
    {<<1 + Cardinality({j \in 1..Len(pairs) :
             \/ tuple_less(pairs[j][1], pairs[i][1])
             \/ /\ ~tuple_less(pairs[i][1], pairs[j][1])
                /\ j < i}), i>> : i \in 1..Len(pairs)}

\* The elements of the pairs, each at its position
in_order(pairs, ranks) ==
    [k \in 1..Len(pairs) |-> pairs[(CHOOSE t \in ranks : t[1] = k)[2]][2]]

stable_sort(pairs) == in_order(pairs, ranked(pairs))

\* main, line 264: key = x['start']
main_key(x) == <<x.start>>

\* create_plot, line 122: key = (x['start'], x['end'] - x['start'])
\* the variants drop the length, or put it first
plot_key_start_only(x) == <<x.start>>
plot_key_length_first(x) == <<x.end - x.start, x.start>>
plot_key(x) == <<x.start, x.end - x.start>>

\* main, line 264: all_matches.sort(key=...)
main_sorted(s) == stable_sort([i \in 1..Len(s) |-> <<main_key(s[i]), s[i]>>])

\* create_plot, line 122: sorted(peptide_matches, key=...)
plot_sorted(s) == stable_sort([i \in 1..Len(s) |-> <<plot_key(s[i]), s[i]>>])

----------------------------------------------------------------------------
(* The row packing of create_plot.                                         *)

\* line 133; the variant leaves out the gap of 10
has_space_no_gap(start_pos, row_end) == start_pos > row_end
has_space(start_pos, row_end) == start_pos > row_end + min_gap

\* lines 131-137: the first row with enough space, or -1 when the loop ends
\* with assigned = False
first_fit_row(start_pos, ends) ==
    IF \E r \in 0..(max_rows - 1) : has_space(start_pos, ends[r])
    THEN CHOOSE r \in 0..(max_rows - 1) :
            /\ has_space(start_pos, ends[r])
            /\ \A q \in 0..(r - 1) : ~has_space(start_pos, ends[q])
    ELSE -1

\* line 141: min() returns the first index with the smallest key
best_row(ends) ==
    CHOOSE r \in 0..(max_rows - 1) :
        /\ \A q \in 0..(max_rows - 1) : ends[r] <= ends[q]
        /\ \A q \in 0..(r - 1) : ends[q] > ends[r]

\* line 142; the variant does not append
overflow_rows_dropping(rws, row, match) == rws
overflow_rows(rws, row, match) == [rws EXCEPT ![row] = Append(@, match)]

\* line 143; the variant overwrites as line 135 does
overflow_end_overwrite(row_end, end_pos) == end_pos
overflow_end(row_end, end_pos) == Max(row_end, end_pos)

----------------------------------------------------------------------------
(* State machine.                                                          *)

NoMatch == [peptide |-> <<>>, start |-> 0, end |-> 0, mutations |-> 0,
            sequence |-> <<>>]

NoStep == [how |-> "none", match |-> NoMatch, row |-> 0,
           ends |-> <<>>, rows |-> <<>>]

InitRest ==
    /\ pc = "find"
    /\ p_idx = 1
    /\ matches = <<>>
    /\ all_matches = <<>>
    /\ sorted_matches = <<>>
    /\ rows = <<>>
    /\ row_end_positions = <<>>
    /\ m_idx = 1
    /\ last = NoStep

\* main, lines 257-261: {'peptide': peptide, **match} for every match
tagged(peptide, found) ==
    [k \in 1..Len(found) |->
        [peptide |-> peptide, start |-> found[k].start, end |-> found[k].end,
         mutations |-> found[k].mutations, sequence |-> found[k].sequence]]

\* main, lines 254-261: one peptide of the loop
FindPeptide ==
    /\ pc = "find"
    /\ p_idx <= Len(peptides)
    /\ matches' = find_peptide_positions(peptides[p_idx], protein_seq, mutations)
    /\ all_matches' = all_matches \o tagged(peptides[p_idx], matches')
    /\ p_idx' = p_idx + 1
    /\ UNCHANGED <<protein_seq, peptides, mutations, pc, sorted_matches, rows,
                   row_end_positions, m_idx, last>>

\* main, lines 264-269: sort, then plot only when there is a match
SortMatches ==
    /\ pc = "find"
    /\ p_idx > Len(peptides)
    /\ all_matches' = main_sorted(all_matches)
    /\ pc' = IF all_matches' # <<>> THEN "plot" ELSE "done"
    /\ UNCHANGED <<protein_seq, peptides, mutations, p_idx, matches,
                   sorted_matches, rows, row_end_positions, m_idx, last>>

\* create_plot, lines 114-122
CreatePlot ==
    /\ pc = "plot"
    /\ rows' = [r \in 0..(max_rows - 1) |-> <<>>]
    /\ row_end_positions' = [r \in 0..(max_rows - 1) |-> 0]
    /\ sorted_matches' = plot_sorted(all_matches)
    /\ m_idx' = 1
    /\ pc' = "pack"
    /\ UNCHANGED <<protein_seq, peptides, mutations, p_idx, matches,
                   all_matches, last>>

\* create_plot, lines 126-143: the body of the loop for one match, fit being
\* the row found by the scan of lines 131-137 (-1: none)
assign(match, fit) ==
    IF fit # -1
    THEN /\ rows' = [rows EXCEPT ![fit] = Append(@, match)]
         /\ row_end_positions' =
                [row_end_positions EXCEPT ![fit] = match.end - 1]
         /\ last' = [how |-> "fit", match |-> match, row |-> fit,
                     ends |-> row_end_positions, rows |-> rows]
    ELSE /\ rows' = overflow_rows(rows, best_row(row_end_positions), match)
         /\ row_end_positions' =
                [row_end_positions EXCEPT
                    ![best_row(row_end_positions)] =
                        overflow_end(@, match.end - 1)]
         /\ last' = [how |-> "overflow", match |-> match,
                     row |-> best_row(row_end_positions),
                     ends |-> row_end_positions, rows |-> rows]

\* create_plot, lines 125-143: one iteration of the loop
AssignRow ==
    /\ pc = "pack"
    /\ m_idx <= Len(sorted_matches)
    /\ assign(sorted_matches[m_idx],
              first_fit_row(sorted_matches[m_idx].start - 1, row_end_positions))
    /\ m_idx' = m_idx + 1
    /\ UNCHANGED <<protein_seq, peptides, mutations, pc, p_idx, matches,
                   all_matches, sorted_matches>>

\* create_plot returns once every match is assigned
PackDone ==
    /\ pc = "pack"
    /\ m_idx > Len(sorted_matches)
    /\ pc' = "done"
    /\ UNCHANGED <<protein_seq, peptides, mutations, p_idx, matches,
                   all_matches, sorted_matches, rows, row_end_positions,
                   m_idx, last>>

Next ==
    \/ FindPeptide
    \/ SortMatches
    \/ CreatePlot
    \/ AssignRow
    \/ PackDone

----------------------------------------------------------------------------
(* Inputs.  SpecMatch runs main on every short protein with one peptide;   *)
(* Spec runs it on proteins made of a head, a run of spacer residues and a *)
(* tail, long enough for the gap rule of line 133 to find space, with a    *)
(* list of peptides; SpecLong runs it, matching exactly, on proteins of 50 *)
(* residues.                                                               *)

Spacers(n) == [k \in 1..n |-> Spacer]

Heads == {<<"A", "K">>, <<"A", "K", "A">>}
SpacerRuns == {9, 10}
Tails == {<<>>, <<"A">>}

LayoutProteins ==
    {head \o Spacers(g) \o tail : head \in Heads, g \in SpacerRuns, tail \in Tails}

\* Proteins of 50 residues: two residues, 47 spacers, one residue
LongProteins ==
    {head \o Spacers(47) \o tail : head \in StrsOfLen(2), tail \in StrsOfLen(1)}

LayoutPeptides == {<<"A">>, <<"A", "K">>, <<"A", "K", "A">>}

Init ==
    /\ protein_seq \in LayoutProteins
    /\ peptides \in SeqsUpTo(LayoutPeptides, MaxPeptides)
    /\ mutations \in Budgets
    /\ InitRest

Spec == Init /\ [][Next]_vars

InitMatch ==
    /\ protein_seq \in Strs(0, MaxProtLen)
    /\ \E peptide \in Strs(1, MaxPepLen) : peptides = <<peptide>>
    /\ mutations \in Budgets
    /\ InitRest

SpecMatch == InitMatch /\ [][Next]_vars

\* Exact matching on a protein of 50 residues
InitLong ==
    /\ protein_seq \in LongProteins
    /\ peptides \in SeqsUpTo(Strs(1, 2), 2)
    /\ mutations = 0
    /\ InitRest

SpecLong == InitLong /\ [][Next]_vars

----------------------------------------------------------------------------
(* Vocabulary of the properties, defined apart from the operators above.   *)

Range(s) == {s[k] : k \in DOMAIN s}

Count(s, x) == Cardinality({k \in DOMAIN s : s[k] = x})

\* The window of length n of P at the 0-based offset i
Window(P, i, n) == [j \in 1..n |-> P[i + j]]

Hamming(K, W) == Cardinality({j \in 1..Len(K) : K[j] # W[j]})

Offsets(K, P) == 0..(Len(P) - Len(K))

Hits(K, P, b) == {i \in Offsets(K, P) : Hamming(K, Window(P, i, Len(K))) <= b}

\* The occurrence of peptide K at the 0-based offset i of P
Occurrence(K, P, i) ==
    [peptide |-> K, start |-> i + 1, end |-> i + Len(K),
     mutations |-> Hamming(K, Window(P, i, Len(K))),
     sequence |-> Window(P, i, Len(K))]

Overlap(x, y) == x.start <= y.end /\ y.start <= x.end

RowIndices == 0..(max_rows - 1)

RECURSIVE SumLen(_, _)
SumLen(f, S) ==
    IF S = {} THEN 0
    ELSE LET r == CHOOSE r \in S : TRUE
         IN  Len(f[r]) + SumLen(f, S \ {r})

RECURSIVE SumCount(_, _, _)
SumCount(f, S, x) ==
    IF S = {} THEN 0
    ELSE LET r == CHOOSE r \in S : TRUE
         IN  Count(f[r], x) + SumCount(f, S \ {r}, x)

\* The largest 0-based end of the occurrences of a row, 0 for an empty row
MaxEnd(row) ==
    IF row = <<>> THEN 0
    ELSE CHOOSE e \in {row[k].end - 1 : k \in DOMAIN row} :
             \A k \in DOMAIN row : e >= row[k].end - 1

\* find_peptide_positions has returned for peptides[p_idx - 1]
Searched == p_idx > 1

\* create_plot has been entered
Packing == pc = "pack" \/ (pc = "done" /\ all_matches # <<>>)

Processed == SubSeq(sorted_matches, 1, m_idx - 1)

----------------------------------------------------------------------------
(* Properties.                                                             *)

\* C1: at every point of the packing loop the rows are exactly the rows
\* 0..max_rows-1 and hold, between them, each processed occurrence as often
\* as it was processed and nothing else; when create_plot is done every
\* sorted match has been processed.
C1_PackingComplete ==
    Packing =>
        /\ DOMAIN rows = RowIndices
        /\ \A x \in Range(Processed) :
               SumCount(rows, RowIndices, x) = Count(Processed, x)
        /\ SumLen(rows, RowIndices) = m_idx - 1
        /\ pc = "done" => m_idx - 1 = Len(sorted_matches)

\* C1 witness: a finished packing in which both rows hold several
\* occurrences and the last one was placed by overflow.
C1_Witness ==
    /\ pc = "done"
    /\ last.how = "overflow"
    /\ \A r \in RowIndices : Len(rows[r]) >= 2

\* C2: a negative mismatch budget (or max_rows <= 0) never ends as a normal,
\* completed run.
C2_InvalidConfigRejected ==
    (mutations < 0 \/ max_rows <= 0) => pc # "done"

\* C3: for a budget >= 0, the list find_peptide_positions returned for the
\* latest peptide has strictly increasing starts, its starts are exactly the
\* offsets whose window is within the budget, each occurrence carries
\* start = i+1, end = i+len, the exact mismatch count and the window itself,
\* a peptide longer than the protein gives the empty list, and at budget 0
\* the starts are those of exact substring search.
C3_FindExact ==
    (Searched /\ mutations >= 0) =>
        LET K == peptides[p_idx - 1]
            P == protein_seq
        IN  /\ \A k \in 1..(Len(matches) - 1) :
                   matches[k].start < matches[k + 1].start
            /\ {matches[k].start - 1 : k \in DOMAIN matches}
                   = Hits(K, P, mutations)
            /\ \A k \in DOMAIN matches :
                   LET m == matches[k]
                   IN  /\ DOMAIN m = {"start", "end", "mutations", "sequence"}
                       /\ m.end = m.start - 1 + Len(K)
                       /\ m.mutations
                              = Hamming(K, Window(P, m.start - 1, Len(K)))
                       /\ m.sequence = Window(P, m.start - 1, Len(K))
            /\ Len(K) > Len(P) => matches = <<>>
            /\ mutations = 0 =>
                   {matches[k].start : k \in DOMAIN matches}
                       = {st \in 1..Len(P) :
                            /\ st - 1 + Len(K) <= Len(P)
                            /\ SubSeq(P, st, st - 1 + Len(K)) = K}

\* C3 witness: a search with budget 1 that returned overlapping hits, one of
\* them with a mismatch.
C3_Witness ==
    /\ Searched
    /\ mutations = 1
    /\ Len(matches) >= 2
    /\ matches[2].start <= matches[1].end
    /\ \E k \in DOMAIN matches : matches[k].mutations = 1

\* C4: every occurrence returned at budget b >= 0 is returned, with the same
\* start, end, mismatch count and matched text, at budget b + 1.
C4_BudgetMonotone ==
    (Searched /\ mutations >= 0) =>
        LET more == find_peptide_positions(peptides[p_idx - 1], protein_seq,
                                           mutations + 1)
        IN  \A k \in DOMAIN matches :
                \E j \in DOMAIN more :
                    /\ more[j].start = matches[k].start
                    /\ more[j].end = matches[k].end
                    /\ more[j].mutations = matches[k].mutations
                    /\ more[j].sequence = matches[k].sequence

\* C4 witness: a search that returned hits and returns strictly more of them
\* with one more mismatch allowed.
C4_Witness ==
    /\ Searched
    /\ mutations >= 0
    /\ matches # <<>>
    /\ Len(find_peptide_positions(peptides[p_idx - 1], protein_seq,
                                  mutations + 1)) > Len(matches)

\* C5: the sequence the packing loop processes holds every occurrence of
\* every listed peptide, as often as the peptide is listed, and nothing else,
\* ordered by start and, among equal starts, by end - start; without hits it
\* is empty.
C5_ProcessedOrder ==
    (pc = "pack" \/ pc = "done") =>
        /\ \A k \in 1..(Len(sorted_matches) - 1) :
               LET x == sorted_matches[k]
                   y == sorted_matches[k + 1]
               IN  \/ x.start < y.start
                   \/ /\ x.start = y.start
                      /\ x.end - x.start <= y.end - y.start
        /\ \A x \in Range(sorted_matches) :
               /\ x.peptide \in Range(peptides)
               /\ x.start - 1 \in Offsets(x.peptide, protein_seq)
               /\ x = Occurrence(x.peptide, protein_seq, x.start - 1)
               /\ x.mutations <= mutations
        /\ \A p \in DOMAIN peptides :
               \A i \in Hits(peptides[p], protein_seq, mutations) :
                   Count(sorted_matches,
                         Occurrence(peptides[p], protein_seq, i))
                       = Cardinality({q \in DOMAIN peptides :
                                         peptides[q] = peptides[p]})
        /\ peptides = <<>> => sorted_matches = <<>>

\* C5 witness: the loop is about to process a sequence that create_plot's
\* sort reordered, with two occurrences of different lengths at one start.
C5_Witness ==
    /\ pc = "pack"
    /\ sorted_matches # all_matches
    /\ \E k \in 1..(Len(sorted_matches) - 1) :
           /\ sorted_matches[k].start = sorted_matches[k + 1].start
           /\ sorted_matches[k].end < sorted_matches[k + 1].end

\* C6: with max_rows = 2 and a gap of 10, three occurrences with starts 1, 2
\* and 50, the first ending more than 10 before 50, end with the first and
\* the third in row 0 and the second in row 1.
C6_Scenario ==
    ( /\ pc = "done"
      /\ Len(sorted_matches) = 3
      /\ sorted_matches[1].start = 1
      /\ sorted_matches[2].start = 2
      /\ sorted_matches[3].start = 50
      /\ sorted_matches[1].end + min_gap < 50 )
    => /\ rows[0] = <<sorted_matches[1], sorted_matches[3]>>
       /\ rows[1] = <<sorted_matches[2]>>

\* C7: in every row, at every point of the loop, the occurrences are in
\* non-decreasing order of start.
C7_RowsOrdered ==
    Packing =>
        \A r \in RowIndices :
            \A k \in 1..(Len(rows[r]) - 1) :
                rows[r][k].start <= rows[r][k + 1].start

\* C7 witness: a row of at least three occurrences, the latest placed by the
\* gap rule after earlier ones placed by overflow.
C7_Witness ==
    /\ Packing
    /\ last.how = "fit"
    /\ Len(rows[last.row]) >= 3
    /\ last.ends[last.row] > 0

\* C8: an occurrence placed by the gap rule went to the lowest row r with
\* start - 1 > row_end_positions[r] + 10, and its start is more than 10 past
\* the end of every occurrence that row held.
C8_FirstFitGap ==
    last.how = "fit" =>
        LET st == last.match.start
            r == last.row
        IN  /\ st - 1 > last.ends[r] + min_gap
            /\ \A q \in 0..(r - 1) : ~(st - 1 > last.ends[q] + min_gap)
            /\ \A k \in DOMAIN last.rows[r] :
                   st > last.rows[r][k].end + min_gap
            /\ rows[r] = Append(last.rows[r], last.match)

\* C8 witness: the gap rule placed an occurrence in row 1, which already held
\* one, row 0 having no space.
C8_Witness ==
    /\ last.how = "fit"
    /\ last.row = 1
    /\ last.rows[1] # <<>>

\* C9: an occurrence is placed in a row where it overlaps an occupant only
\* when every row holds an occupant it overlaps.
C9_OverlapLastResort ==
    ( /\ last.how # "none"
      /\ \E k \in DOMAIN last.rows[last.row] :
             Overlap(last.match, last.rows[last.row][k]) )
    => \A r \in RowIndices :
           \E k \in DOMAIN last.rows[r] : Overlap(last.match, last.rows[r][k])

\* C10: for every row, row_end_positions is the largest end - 1 of its
\* occurrences, 0 for an empty row, and no assignment lowers it.
C10_RowEnds ==
    Packing =>
        /\ \A r \in RowIndices : row_end_positions[r] = MaxEnd(rows[r])
        /\ last.how # "none" =>
               \A r \in RowIndices : row_end_positions[r] >= last.ends[r]

\* C10 witness: an overflow placed an occurrence that ends before the end
\* the row had reached.
C10_Witness ==
    /\ last.how = "overflow"
    /\ last.match.end - 1 < last.ends[last.row]
    /\ row_end_positions[last.row] = last.ends[last.row]

====
